---- MODULE Spec2Model ----
(***************************************************************************)
(* One-way ANOVA of the control error of three robot-control algorithms:   *)
(* the two copies of perform_anova_test (algorithm_anova_analysis.py and   *)
(* generate_anova_report.py), the scripts main() and                       *)
(* generate_markdown_report() that load the CSV file and write the figure  *)
(* and the report, and the data generator.                                 *)
(*                                                                         *)
(* Numbers.  A float64 is modelled by the real number it approximates:     *)
(* finite values are exact rationals [k |-> "num", n, d] in lowest terms,  *)
(* and the IEEE-754 specials that numpy produces instead of raising are    *)
(* [k |-> "nan"], [k |-> "inf"], [k |-> "ninf"].  Two further kinds hold   *)
(* the irrational results of scipy.stats.f:                                *)
(*   [k |-> "surd", a, s, r]          the real  a + s * sqrt(r)            *)
(*   [k |-> "quantile", q, dfn, dfd]  the real x with cdf(x; dfn, dfd) = q *)
(* Rounding error of float64 (about 1e-16 relative) is not modelled.       *)
(***************************************************************************)
EXTENDS Integers, Sequences, FiniteSets, TLC

Abs(i) == IF i < 0 THEN -i ELSE i

RECURSIVE GCD(_, _)
GCD(a, b) == IF b = 0 THEN a ELSE GCD(b, a % b)

\* The rational n/d in lowest terms with a positive denominator (d # 0).
Rat(n, d) ==
    LET g == GCD(Abs(n), Abs(d))
        s == IF d < 0 THEN -1 ELSE 1
    IN  [k |-> "num", n |-> (s * n) \div g, d |-> Abs(d) \div g]

Whole(i) == [k |-> "num", n |-> i, d |-> 1]
Zero == Whole(0)
One == Whole(1)
NaN == [k |-> "nan"]
PosInf == [k |-> "inf"]
NegInf == [k |-> "ninf"]

IsNum(x) == x.k = "num"
IsNaN(x) == x.k = "nan"

\* float64 + - * on the values the computation produces (finite or nan).
FAdd(x, y) ==
    IF IsNum(x) /\ IsNum(y) THEN Rat(x.n * y.d + y.n * x.d, x.d * y.d) ELSE NaN

FSub(x, y) ==
    IF IsNum(x) /\ IsNum(y) THEN Rat(x.n * y.d - y.n * x.d, x.d * y.d) ELSE NaN

FMul(x, y) ==
    IF IsNum(x) /\ IsNum(y) THEN Rat(x.n * y.n, x.d * y.d) ELSE NaN

RECURSIVE FPow(_, _)
FPow(x, e) == IF e = 0 THEN One ELSE FMul(x, FPow(x, e - 1))

\* numpy float64 true division: a zero divisor gives inf, -inf or nan (with a
\* RuntimeWarning), never an exception.
FDiv(x, y) ==
    CASE IsNaN(x) \/ IsNaN(y) -> NaN
      [] IsNum(x) /\ IsNum(y) ->
            IF y.n = 0
            THEN IF x.n > 0 THEN PosInf ELSE IF x.n < 0 THEN NegInf ELSE NaN
            ELSE Rat(x.n * y.d, x.d * y.n)
      [] IsNum(x) -> Zero
      [] IsNum(y) ->
            IF (x.k = "inf") = (y.n >= 0) THEN PosInf ELSE NegInf
      [] OTHER -> NaN

\* n1/d1 >= n2/d2 (d1, d2 > 0) by comparing the continued fractions, so that
\* no product is formed.
RECURSIVE FracGe(_, _, _, _)
FracGe(n1, d1, n2, d2) ==
    IF n1 \div d1 # n2 \div d2 THEN n1 \div d1 > n2 \div d2
    ELSE IF n2 % d2 = 0 THEN TRUE
    ELSE IF n1 % d1 = 0 THEN FALSE
    ELSE FracGe(d2, n2 % d2, d1, n1 % d1)

\* x >= y for two rationals.
RatGe(x, y) == FracGe(x.n, x.d, y.n, y.d)

\* The largest s in lo..hi with s * s <= n (lo * lo <= n).
RECURSIVE ISqrtIn(_, _, _)
ISqrtIn(n, lo, hi) ==
    IF lo = hi THEN lo
    ELSE LET mid == (lo + hi + 1) \div 2
         IN  IF mid * mid <= n THEN ISqrtIn(n, mid, hi) ELSE ISqrtIn(n, lo, mid - 1)

\* 46340 is the largest integer whose square is below 2^31.
ISqrt(n) == ISqrtIn(n, 0, 46340)

IsSquare(n) == ISqrt(n) * ISqrt(n) = n

\* sqrt of a rational x >= 0: rational when x is a square, else a surd.
FSqrt(x) ==
    IF IsSquare(x.n) /\ IsSquare(x.d)
    THEN Rat(ISqrt(x.n), ISqrt(x.d))
    ELSE [k |-> "surd", a |-> Zero, s |-> 1, r |-> x]

\* 1 - x, for x a probability (rational or surd) or nan.
OneMinus(x) ==
    CASE IsNum(x) -> FSub(One, x)
      [] x.k = "surd" -> [k |-> "surd", a |-> FSub(One, x.a), s |-> -(x.s), r |-> x.r]
      [] OTHER -> NaN

\* x >= c for a rational or surd x and a rational c.  sqrt(r) is irrational,
\* so the surd never equals c.
RealGe(x, c) ==
    CASE IsNum(x) -> RatGe(x, c)
      [] x.k = "surd" ->
            LET t == FSub(c, x.a)
            IN  IF x.s = 1
                THEN t.n <= 0 \/ RatGe(x.r, FMul(t, t))
                ELSE t.n <= 0 /\ RatGe(FMul(t, t), x.r)
      [] OTHER -> FALSE

\* x <= c, likewise (nan compares false).
RealLe(x, c) ==
    CASE IsNum(x) -> RatGe(c, x)
      [] x.k = "surd" -> ~RealGe(x, c)
      [] OTHER -> FALSE

\* round(x, 4) at the return statement.
ndigits == 4

RECURSIVE Pow10(_)
Pow10(e) == IF e = 0 THEN 1 ELSE 10 * Pow10(e - 1)

\* Quotient and remainder of n * 10^e by d (0 <= n, 0 < d), by long division.
RECURSIVE LongDiv(_, _, _)
LongDiv(n, d, e) ==
    IF e = 0 THEN [q |-> n \div d, rem |-> n % d]
    ELSE LET p == LongDiv(n, d, e - 1)
         IN  [q |-> p.q * 10 + (p.rem * 10) \div d, rem |-> (p.rem * 10) % d]

\* n * 10^e / d rounded to the nearest integer, ties to the even one.
RoundHalfEven(n, d, e) ==
    LET p == LongDiv(n, d, e)
    IN  IF 2 * p.rem > d \/ (2 * p.rem = d /\ p.q % 2 = 1) THEN p.q + 1 ELSE p.q

\* sqrt(r) * 10^e rounded to the nearest integer, for a rational 0 <= r <= 1
\* that is no square: the largest j with (2j - 1)^2 <= 4 * 10^(2e) * r.
RoundSqrt(r, e) == (ISqrt(LongDiv(4 * r.n, r.d, 2 * e).q) + 1) \div 2

\* Python round(x, ndigits) of a numpy float64: nan and inf pass through; a
\* quantile without a closed form stays symbolic.
Round(x, e) ==
    CASE IsNum(x) ->
            Rat((IF x.n < 0 THEN -1 ELSE 1) * RoundHalfEven(Abs(x.n), x.d, e), Pow10(e))
      [] x.k = "surd" ->
            Rat(RoundHalfEven(Abs(x.a.n), x.a.d, e) * (IF x.a.n < 0 THEN -1 ELSE 1)
                    + x.s * RoundSqrt(x.r, e), Pow10(e))
      [] x.k = "quantile" -> [k |-> "rounded", of |-> x, ndigits |-> e]
      [] OTHER -> x

(***************************************************************************)
(* scipy.stats.f, the F distribution with (dfn, dfd) degrees of freedom,   *)
(* by its closed forms.  With w = dfd / (dfd + 2x) and u = x / (x + dfd):  *)
(*   dfn = 2:            cdf(x) = 1 - w^(dfd/2)                            *)
(*   dfn = 1, dfd = 2m:  cdf(x) = sqrt(u) * SUM_{j<m} c_j (1-u)^j,         *)
(*                       c_0 = 1, c_j = c_{j-1} * (2j-1)/(2j)              *)
(* (the square of a Student t with 2m degrees of freedom).  For dfn = 1    *)
(* and odd dfd, and for dfn >= 3, the cdf is not algebraic in x and is not *)
(* modelled: Modelled(dfn, dfd) says which shapes are.  Invalid shapes     *)
(* (dfn <= 0 or dfd <= 0) give nan, as scipy does.                         *)
(***************************************************************************)
Modelled(dfn, dfd) ==
    dfn <= 0 \/ dfd <= 0 \/ dfn = 2 \/ (dfn = 1 /\ dfd % 2 = 0)

\* SUM_{j < m} c_j * v^j with c_0 = 1, c_j = c_{j-1} * (2j-1)/(2j).
RECURSIVE StudentCoef(_)
StudentCoef(j) == IF j = 0 THEN One ELSE FMul(StudentCoef(j - 1), Rat(2 * j - 1, 2 * j))

RECURSIVE StudentSum(_, _)
StudentSum(v, m) ==
    IF m = 0 THEN Zero
    ELSE FAdd(StudentSum(v, m - 1), FMul(StudentCoef(m - 1), FPow(v, m - 1)))

f_cdf(x, dfn, dfd) ==
    CASE dfn <= 0 \/ dfd <= 0 \/ IsNaN(x) -> NaN
      [] x.k = "inf" -> One
      [] x.k = "ninf" -> Zero
      [] x.n <= 0 -> Zero
      [] dfn = 2 ->
            LET w == FDiv(Whole(dfd), FAdd(Whole(dfd), FMul(Whole(2), x)))
            IN  IF dfd % 2 = 0
                THEN OneMinus(FPow(w, dfd \div 2))
                ELSE OneMinus(FSqrt(FPow(w, dfd)))
      [] dfn = 1 /\ dfd % 2 = 0 ->
            LET u == FDiv(x, FAdd(x, Whole(dfd)))
                p == StudentSum(FSub(One, u), dfd \div 2)
            IN  FSqrt(FMul(u, FMul(p, p)))
      [] OTHER -> [k |-> "unmodelled"]

\* The quantile: rational for (2, 1), (2, 2) and (1, 2),
\*   dfn = 2, dfd | 2:  (dfd/2) * ((1-q)^(-2/dfd) - 1)
\*   (1, 2):            2 q^2 / (1 - q^2)
\* and otherwise the symbolic inverse of f_cdf at q (0 < q < 1).
f_ppf(q, dfn, dfd) ==
    CASE dfn <= 0 \/ dfd <= 0 \/ IsNaN(q) -> NaN
      [] dfn = 2 /\ dfd <= 2 ->
            FMul(Rat(dfd, 2),
                 FSub(FPow(FDiv(One, FSub(One, q)), 2 \div dfd), One))
      [] dfn = 1 /\ dfd = 2 ->
            FDiv(FMul(Whole(2), FMul(q, q)), FSub(One, FMul(q, q)))
      [] OTHER -> [k |-> "quantile", q |-> q, dfn |-> dfn, dfd |-> dfd]

\* x >= y for a float x and a threshold y.  A comparison with nan is False.
\* The cdf is increasing, so x >= quantile(q) exactly when cdf(x) >= q.
FGe(x, y) ==
    CASE IsNaN(x) \/ IsNaN(y) -> FALSE
      [] x.k = "inf" -> TRUE
      [] x.k = "ninf" -> FALSE
      [] IsNum(y) -> RatGe(x, y)
      [] OTHER -> RealGe(f_cdf(x, y.dfn, y.dfd), y.q)

(***************************************************************************)
(* The data frame: a sequence of rows [error |-> value, algorithm |->      *)
(* label], and the pandas operations perform_anova_test applies to it.     *)
(***************************************************************************)
\* dataframe[col]
Column(dataframe, col) == [i \in 1..Len(dataframe) |-> dataframe[i][col]]

\* Mutant of unique: the labels with their duplicates kept.
unique_keep_duplicates(categories) == categories

\* Series.unique(): the distinct labels in first-seen order.
RECURSIVE unique(_)
unique(categories) ==
    IF categories = <<>> THEN <<>>
    ELSE LET init == unique(SubSeq(categories, 1, Len(categories) - 1))
             last == categories[Len(categories)]
         IN  IF \E i \in 1..Len(init) : init[i] = last THEN init
             ELSE Append(init, last)

\* Mutant of SelectGroup: the first run of consecutive rows of the group, as
\* if the rows came grouped in blocks.
RECURSIVE SelectRun(_, _, _)
SelectRun(values, categories, group) ==
    IF values = <<>> THEN <<>>
    ELSE IF Head(categories) # group
         THEN SelectRun(Tail(values), Tail(categories), group)
         ELSE IF Len(values) = 1 \/ categories[2] # group THEN <<Head(values)>>
              ELSE <<Head(values)>> \o SelectRun(Tail(values), Tail(categories), group)

\* values[categories == group]
RECURSIVE SelectGroup(_, _, _)
SelectGroup(values, categories, group) ==
    IF values = <<>> THEN <<>>
    ELSE LET rest == SelectGroup(Tail(values), Tail(categories), group)
         IN  IF Head(categories) = group THEN <<Head(values)>> \o rest ELSE rest

\* Series.sum()
RECURSIVE SeriesSum(_)
SeriesSum(values) ==
    IF values = <<>> THEN Zero ELSE FAdd(Whole(Head(values)), SeriesSum(Tail(values)))

\* Series.mean(): nan for an empty series.
mean(values) ==
    IF values = <<>> THEN NaN ELSE FDiv(SeriesSum(values), Whole(Len(values)))

\* Mutant of SumSqDev: the deviations summed without squaring.
RECURSIVE SumDev(_, _)
SumDev(values, m) ==
    IF values = <<>> THEN Zero
    ELSE FAdd(FSub(Whole(Head(values)), m), SumDev(Tail(values), m))

\* ((values - m) ** 2).sum(): 0 for an empty series.
RECURSIVE SumSqDev(_, _)
SumSqDev(values, m) ==
    IF values = <<>> THEN Zero
    ELSE LET dv == FSub(Whole(Head(values)), m)
         IN  FAdd(FMul(dv, dv), SumSqDev(Tail(values), m))

\* Mutant of WithinLoop: the deviations taken from the grand mean.
RECURSIVE WithinLoopGrandMean(_, _, _, _)
WithinLoopGrandMean(values, categories, groups, j) ==
    IF j = 0 THEN Zero
    ELSE FAdd(WithinLoopGrandMean(values, categories, groups, j - 1),
              SumSqDev(SelectGroup(values, categories, groups[j]), mean(values)))

\* The loop over groups: within_group_variance after the first j groups.
RECURSIVE WithinLoop(_, _, _, _)
WithinLoop(values, categories, groups, j) ==
    IF j = 0 THEN Zero
    ELSE LET group_values == SelectGroup(values, categories, groups[j])
             group_mean == mean(group_values)
         IN  FAdd(WithinLoop(values, categories, groups, j - 1),
                  SumSqDev(group_values, group_mean))

\* Mutant of critical_value: the quantile at alpha instead of 1 - alpha.
critical_value_lower_tail(alpha, dfn, dfd) == f_ppf(alpha, dfn, dfd)

\* st.f.ppf(1 - alpha, dfn=dfn, dfd=dfd)
critical_value(alpha, dfn, dfd) == f_ppf(FSub(One, alpha), dfn, dfd)

\* 1 - st.f.cdf(f_value, dfn=dfn, dfd=dfd)
survival(f_value, dfn, dfd) == OneMinus(f_cdf(f_value, dfn, dfd))

(***************************************************************************)
(* perform_anova_test of algorithm_anova_analysis.py.  The outcome is a    *)
(* record: raised (the exception, "none" when the function returns), the   *)
(* local variables computed, and result, the returned tuple.               *)
(* within_group_variance is still the Python int 0 when the loop never ran *)
(* (no group), and then int 0 / int 0 raises ZeroDivisionError; every      *)
(* other division is a numpy float64 division.                             *)
(***************************************************************************)
Analysis_perform_anova_test(numeric_col, category_col, dataframe, alpha) ==
    LET values == Column(dataframe, numeric_col)
        categories == Column(dataframe, category_col)
        groups == unique(categories)
        grand_mean == mean(values)
        total_variance == SumSqDev(values, grand_mean)
        within_group_variance == WithinLoop(values, categories, groups, Len(groups))
        between_group_variance == FSub(total_variance, within_group_variance)
        effect_size == FDiv(between_group_variance, total_variance)
        dfn == Len(groups) - 1
        dfd == Len(values) - Len(groups)
        between_variance == FDiv(between_group_variance, Whole(dfn))
        computed == [grand_mean |-> grand_mean,
                     total_variance |-> total_variance,
                     within_group_variance |-> within_group_variance,
                     between_group_variance |-> between_group_variance,
                     effect_size |-> effect_size,
                     dfn |-> dfn, dfd |-> dfd,
                     between_variance |-> between_variance]
    IN  IF Len(groups) = 0 /\ dfd = 0
        THEN [raised |-> "ZeroDivisionError", locals |-> computed, result |-> <<>>]
        ELSE LET within_variance == FDiv(within_group_variance, Whole(dfd))
                 f_value == FDiv(between_variance, within_variance)
                 threshold == critical_value(alpha, dfn, dfd)
                 p_value == survival(f_value, dfn, dfd)
                 is_significant == FGe(f_value, threshold)
             IN  [raised |-> "none",
                  locals |-> computed @@
                             [within_variance |-> within_variance,
                              f_value |-> f_value,
                              threshold |-> threshold,
                              p_value |-> p_value,
                              is_significant |-> is_significant],
                  result |-> <<Round(f_value, ndigits), Round(threshold, ndigits),
                               is_significant, Round(p_value, ndigits)>>]

\* Mutant of Report_perform_anova_test: the significance level fixed at 0.05.
Report_perform_anova_test_fixed_alpha(numeric_col, category_col, dataframe, alpha) ==
    Analysis_perform_anova_test(numeric_col, category_col, dataframe, Rat(1, 20))

(***************************************************************************)
(* perform_anova_test of generate_anova_report.py: the copy without the    *)
(* effect size and the diagnostic output.                                  *)
(***************************************************************************)
Report_perform_anova_test(numeric_col, category_col, dataframe, alpha) ==
    LET values == Column(dataframe, numeric_col)
        categories == Column(dataframe, category_col)
        groups == unique(categories)
        grand_mean == mean(values)
        total_variance == SumSqDev(values, grand_mean)
        within_group_variance == WithinLoop(values, categories, groups, Len(groups))
        between_group_variance == FSub(total_variance, within_group_variance)
        dfn == Len(groups) - 1
        dfd == Len(values) - Len(groups)
        between_variance == FDiv(between_group_variance, Whole(dfn))
        computed == [grand_mean |-> grand_mean,
                     total_variance |-> total_variance,
                     within_group_variance |-> within_group_variance,
                     between_group_variance |-> between_group_variance,
                     dfn |-> dfn, dfd |-> dfd,
                     between_variance |-> between_variance]
    IN  IF Len(groups) = 0 /\ dfd = 0
        THEN [raised |-> "ZeroDivisionError", locals |-> computed, result |-> <<>>]
        ELSE LET within_variance == FDiv(within_group_variance, Whole(dfd))
                 f_value == FDiv(between_variance, within_variance)
                 threshold == critical_value(alpha, dfn, dfd)
                 p_value == survival(f_value, dfn, dfd)
                 is_significant == FGe(f_value, threshold)
             IN  [raised |-> "none",
                  locals |-> computed @@
                             [within_variance |-> within_variance,
                              f_value |-> f_value,
                              threshold |-> threshold,
                              p_value |-> p_value,
                              is_significant |-> is_significant],
                  result |-> <<Round(f_value, ndigits), Round(threshold, ndigits),
                               is_significant, Round(p_value, ndigits)>>]

(***************************************************************************)
(* Inputs.  The general tables have at most MaxRows rows over three labels *)
(* and two error values, in every order, restricted to the shapes whose F  *)
(* distribution is modelled; the worked examples are added to them.        *)
(***************************************************************************)
MaxRows == 4

Labels == {"PID", "LQR", "MPC"}
Values == {0, 1}

Row(v, g) == [error |-> v, algorithm |-> g]

Tables == UNION {[1..n -> {Row(v, g) : v \in Values, g \in Labels}] : n \in 0..MaxRows}

LabelSet(table) == {table[i].algorithm : i \in 1..Len(table)}

ModelledTable(table) ==
    LET k == Cardinality(LabelSet(table)) IN Modelled(k - 1, Len(table) - k)

\* Groups [1, 2, 3] and [7, 8, 9].
ExampleTwoGroups ==
    <<Row(1, "PID"), Row(2, "PID"), Row(3, "PID"),
      Row(7, "LQR"), Row(8, "LQR"), Row(9, "LQR")>>

\* F = 1234/65 = 18.9846..., just below the critical value 19 of F(2, 2) at
\* alpha = 0.05; p = 65/1299 = 0.050038...
ExampleBoundary ==
    <<Row(0, "PID"), Row(3, "PID"), Row(4, "PID"), Row(4, "LQR"), Row(17, "MPC")>>

\* Three groups in interleaved order, significant at alpha = 0.05:
\* F = 321/5 = 64.2 against the critical value 19 of F(2, 2).
ExampleInterleaved ==
    <<Row(9, "MPC"), Row(0, "PID"), Row(4, "LQR"), Row(8, "MPC"), Row(1, "PID")>>

\* Two unbalanced groups, significant at alpha = 0.05: F = 25 against the
\* critical value 18.5128 of F(1, 2).
ExampleUnbalanced ==
    <<Row(3, "LQR"), Row(0, "PID"), Row(3, "LQR"), Row(4, "LQR")>>

Examples == {ExampleTwoGroups, ExampleBoundary, ExampleInterleaved, ExampleUnbalanced}

Inputs == {t \in Tables : ModelledTable(t)} \cup Examples

\* alpha=0.05, the default and the value both scripts pass.
DefaultAlpha == Rat(1, 20)
Alphas == {DefaultAlpha, Rat(1, 2)}

(***************************************************************************)
(* generate_algorithm_data.py.  With the seed fixed, the script writes the *)
(* same table on every run: n_samples rows per algorithm, PID first, then  *)
(* LQR, then MPC.  The model takes SampleBound rows per algorithm          *)
(* (n_samples is 30) and fixed stand-ins for the drawn errors, largest for *)
(* PID and smallest for MPC.                                               *)
(***************************************************************************)
SampleBound == 2

pid_errors == [i \in 1..SampleBound |-> IF i % 2 = 1 THEN 3 ELSE 1]
lqr_errors == [i \in 1..SampleBound |-> 1]
mpc_errors == [i \in 1..SampleBound |-> IF i % 2 = 1 THEN 0 ELSE 1]

GeneratedData ==
    [i \in 1..SampleBound |-> Row(pid_errors[i], "PID")]
        \o [i \in 1..SampleBound |-> Row(lqr_errors[i], "LQR")]
        \o [i \in 1..SampleBound |-> Row(mpc_errors[i], "MPC")]

(***************************************************************************)
(* State.                                                                  *)
(*   dataframe, alpha   the arguments of a direct call of the engine       *)
(*   analysis, report   the outcome of perform_anova_test of the analysis  *)
(*                      script and of the report script (NotCalled before) *)
(*   csv                algorithm_performance_data.csv: exists, rows       *)
(*   mainPc, mainDf     position of main() and the data frame it loaded    *)
(*   reportPc, reportDf the same for generate_markdown_report()            *)
(*   outputs            the output files written so far                    *)
(***************************************************************************)
VARIABLES dataframe, alpha, analysis, report,
          csv, mainPc, mainDf, reportPc, reportDf, outputs

vars == <<dataframe, alpha, analysis, report,
          csv, mainPc, mainDf, reportPc, reportDf, outputs>>

NotCalled == [raised |-> "not_called"]

NoFile == [exists |-> FALSE, rows |-> <<>>]
File(table) == [exists |-> TRUE, rows |-> table]

ReportFile == "ANOVA_Analysis_Report.md"
FigureFile == "algorithm_anova_visualization.png"

\* The CSV files that may be on disk before any script runs.
CsvFiles == Examples \cup {<<>>}

scriptVars == <<csv, mainPc, mainDf, reportPc, reportDf, outputs>>

(***************************************************************************)
(* The engine called directly: both copies applied to the same arguments.  *)
(***************************************************************************)
InitAnova ==
    /\ dataframe \in Inputs
    /\ alpha \in Alphas
    /\ analysis = NotCalled
    /\ report = NotCalled
    /\ csv = NoFile
    /\ mainPc = "start"
    /\ mainDf = <<>>
    /\ reportPc = "start"
    /\ reportDf = <<>>
    /\ outputs = {}

CallAnalysis ==
    /\ analysis = NotCalled
    /\ analysis' = Analysis_perform_anova_test("error", "algorithm", dataframe, alpha)
    /\ UNCHANGED <<dataframe, alpha, report, scriptVars>>

CallReport ==
    /\ report = NotCalled
    /\ report' = Report_perform_anova_test("error", "algorithm", dataframe, alpha)
    /\ UNCHANGED <<dataframe, alpha, analysis, scriptVars>>

NextAnova == CallAnalysis \/ CallReport

SpecAnova == InitAnova /\ [][NextAnova]_vars

(***************************************************************************)
(* The scripts.                                                            *)
(***************************************************************************)
Init ==
    /\ dataframe = <<>>
    /\ alpha = DefaultAlpha
    /\ analysis = NotCalled
    /\ report = NotCalled
    /\ csv \in {NoFile} \cup {File(t) : t \in CsvFiles}
    /\ mainPc = "start"
    /\ mainDf = <<>>
    /\ reportPc = "start"
    /\ reportDf = <<>>
    /\ outputs = {}

\* generate_algorithm_data.py: df.to_csv('algorithm_performance_data.csv')
GenerateData ==
    /\ csv' = File(GeneratedData)
    /\ UNCHANGED <<dataframe, alpha, analysis, report,
                   mainPc, mainDf, reportPc, reportDf, outputs>>

\* main(), step 1: pd.read_csv, or the FileNotFoundError branch and return.
MainLoad ==
    /\ mainPc = "start"
    /\ IF csv.exists
       THEN mainPc' = "loaded" /\ mainDf' = csv.rows
       ELSE mainPc' = "no_file" /\ mainDf' = mainDf
    /\ UNCHANGED <<dataframe, alpha, analysis, report, csv, reportPc, reportDf, outputs>>

\* main(), steps 2 to 4: the descriptive statistics, perform_anova_test with
\* alpha=0.05 and the interpretation.  An exception of the call is not caught.
MainAnova ==
    /\ mainPc = "loaded"
    /\ analysis' = Analysis_perform_anova_test("error", "algorithm", mainDf, DefaultAlpha)
    /\ mainPc' = IF analysis'.raised = "none" THEN "analysed" ELSE "crashed"
    /\ UNCHANGED <<dataframe, alpha, report, csv, mainDf, reportPc, reportDf, outputs>>

\* Mutant of MainPlot: the figure saved before the analysis.
MainPlotBeforeAnova ==
    /\ mainPc = "loaded"
    /\ outputs' = outputs \cup {FigureFile}
    /\ mainPc' = "plotted"
    /\ UNCHANGED <<dataframe, alpha, analysis, report, csv, mainDf, reportPc, reportDf>>

\* main(), step 5: the two plots and plt.savefig.
MainPlot ==
    /\ mainPc = "analysed"
    /\ outputs' = outputs \cup {FigureFile}
    /\ mainPc' = "plotted"
    /\ UNCHANGED <<dataframe, alpha, analysis, report, csv, mainDf, reportPc, reportDf>>

\* main(), step 6: the recommendation and plt.show().
MainFinish ==
    /\ mainPc = "plotted"
    /\ mainPc' = "done"
    /\ UNCHANGED <<dataframe, alpha, analysis, report, csv, mainDf, reportPc, reportDf,
                   outputs>>

\* generate_markdown_report(): pd.read_csv, or the FileNotFoundError branch.
ReportLoad ==
    /\ reportPc = "start"
    /\ IF csv.exists
       THEN reportPc' = "loaded" /\ reportDf' = csv.rows
       ELSE reportPc' = "no_file" /\ reportDf' = reportDf
    /\ UNCHANGED <<dataframe, alpha, analysis, report, csv, mainPc, mainDf, outputs>>

\* generate_markdown_report(): perform_anova_test('error', 'algorithm', df, 0.05).
ReportAnova ==
    /\ reportPc = "loaded"
    /\ report' = Report_perform_anova_test("error", "algorithm", reportDf, DefaultAlpha)
    /\ reportPc' = IF report'.raised = "none" THEN "analysed" ELSE "crashed"
    /\ UNCHANGED <<dataframe, alpha, analysis, csv, mainPc, mainDf, reportDf, outputs>>

\* generate_markdown_report(): the per-algorithm statistics, the report text
\* (stats.loc['PID', ...], ['LQR', ...], ['MPC', ...] raise KeyError for a label
\* the data lacks) and the write of ANOVA_Analysis_Report.md.
ReportWrite ==
    /\ reportPc = "analysed"
    /\ IF Labels \subseteq LabelSet(reportDf)
       THEN outputs' = outputs \cup {ReportFile} /\ reportPc' = "done"
       ELSE outputs' = outputs /\ reportPc' = "crashed"
    /\ UNCHANGED <<dataframe, alpha, analysis, report, csv, mainPc, mainDf, reportDf>>

Next ==
    \/ GenerateData
    \/ MainLoad \/ MainAnova \/ MainPlot \/ MainFinish
    \/ ReportLoad \/ ReportAnova \/ ReportWrite

Spec == Init /\ [][Next]_vars

(***************************************************************************)
(* Reference quantities of the current arguments, computed from the table  *)
(* itself and not by the engine.                                           *)
(***************************************************************************)
NRows == Len(dataframe)
NGroups == Cardinality(LabelSet(dataframe))
GroupSize(g) == Cardinality({i \in 1..Len(dataframe) : dataframe[i].algorithm = g})

\* k >= 2 distinct groups and n > k observations.
ValidInput == NGroups >= 2 /\ NRows > NGroups

Called == {r \in {analysis, report} : r # NotCalled}
Returned == {r \in Called : r.raised = "none"}

\* Sum of error^p over the first i rows that carry a label of G.
RECURSIVE PowerSum(_, _, _)
PowerSum(G, p, i) ==
    IF i = 0 THEN 0
    ELSE PowerSum(G, p, i - 1)
         + (IF dataframe[i].algorithm \in G
            THEN (IF p = 1 THEN dataframe[i].error
                  ELSE dataframe[i].error * dataframe[i].error)
            ELSE 0)

\* SUM (x - mean)^2 over the rows labelled in G, as SUM x^2 - (SUM x)^2 / count.
SumOfSquares(G) ==
    LET c == Cardinality({i \in 1..NRows : dataframe[i].algorithm \in G})
    IN  IF c = 0 THEN Zero
        ELSE Rat(c * PowerSum(G, 2, NRows) - PowerSum(G, 1, NRows) * PowerSum(G, 1, NRows), c)

RefTotal == SumOfSquares(Labels)
RefWithin ==
    FAdd(SumOfSquares({"PID"}), FAdd(SumOfSquares({"LQR"}), SumOfSquares({"MPC"})))

\* C1: for every valid input the engine's total and within-group sums of
\* squares are the sums of squared deviations from the grand mean and from the
\* group means, and within + between = total.
C1_Decomposition ==
    \A r \in Returned :
        ValidInput =>
            /\ r.locals.total_variance = RefTotal
            /\ r.locals.within_group_variance = RefWithin
            /\ FAdd(r.locals.within_group_variance, r.locals.between_group_variance)
                   = r.locals.total_variance

\* A valid input with within > 0 and between > 0 has been analysed by both copies.
C1_Witness ==
    /\ ValidInput
    /\ analysis # NotCalled /\ report # NotCalled
    /\ analysis.locals.within_group_variance.n > 0
    /\ analysis.locals.between_group_variance.n > 0

\* C2: with k >= 1 distinct labels, dfn = k - 1 and dfd = (sum of the group
\* sizes) - k, balanced or not.
C2_DegreesOfFreedom ==
    \A r \in Called :
        NGroups >= 1 =>
            /\ r.locals.dfn = NGroups - 1
            /\ r.locals.dfd = GroupSize("PID") + GroupSize("LQR") + GroupSize("MPC") - NGroups

\* Three groups of different sizes have been analysed.
C2_Witness ==
    /\ analysis # NotCalled
    /\ NGroups = 3
    /\ GroupSize("PID") # GroupSize("LQR")
    /\ analysis.locals.dfd > 0

\* C3: groups [1, 2, 3] and [7, 8, 9] at alpha = 0.05 give grand mean 5,
\* total 58, within 4, between 54, dfn 1, dfd 4, mean squares 54 and 1,
\* F = 54.0 and is_significant = True.
C3_Example ==
    (dataframe = ExampleTwoGroups /\ alpha = DefaultAlpha /\ analysis # NotCalled) =>
        /\ analysis.raised = "none"
        /\ analysis.locals.grand_mean = Whole(5)
        /\ analysis.locals.total_variance = Whole(58)
        /\ analysis.locals.within_group_variance = Whole(4)
        /\ analysis.locals.between_group_variance = Whole(54)
        /\ analysis.locals.dfn = 1
        /\ analysis.locals.dfd = 4
        /\ analysis.locals.between_variance = Whole(54)
        /\ analysis.locals.within_variance = Whole(1)
        /\ analysis.locals.f_value = Whole(54)
        /\ analysis.result[1] = Whole(54)
        /\ analysis.result[3] = TRUE

C3_Witness ==
    dataframe = ExampleTwoGroups /\ alpha = DefaultAlpha /\ analysis # NotCalled

\* F equals the critical value exactly, inside the call or in the returned tuple.
AtBoundary(r) ==
    \/ r.locals.f_value = r.locals.threshold
    \/ r.result[1] = r.result[2]

IsFloat(x) == x.k \in {"num", "nan", "inf", "ninf"}

\* C4 as stated: on the returned tuple (F, critical value, flag, p), the flag is
\* (F >= critical value) and agrees with (p <= alpha), except when F equals the
\* critical value.
C4_ReturnedTupleAgrees ==
    \A r \in Returned :
        (ValidInput /\ ~AtBoundary(r)) =>
            /\ IsFloat(r.result[2]) => (r.result[3] <=> FGe(r.result[1], r.result[2]))
            /\ r.result[3] <=> RealLe(r.result[4], alpha)

\* C4 amended: the flag is (F >= critical value) and agrees with (p <= alpha)
\* for the unrounded values computed inside the call, except when F equals the
\* critical value; the returned flag is that flag, and it is (F >= critical
\* value) on the rounded values too.
C4_FlagAgrees ==
    \A r \in Returned :
        (ValidInput /\ ~AtBoundary(r)) =>
            /\ r.locals.is_significant <=> FGe(r.locals.f_value, r.locals.threshold)
            /\ r.locals.is_significant <=> RealLe(r.locals.p_value, alpha)
            /\ r.result[3] = r.locals.is_significant
            /\ IsFloat(r.result[2]) => (r.result[3] <=> FGe(r.result[1], r.result[2]))

\* A finite F with a rational critical value, flagged at alpha = 0.05.
C4_Witness ==
    /\ ValidInput /\ alpha = DefaultAlpha
    /\ analysis # NotCalled /\ report # NotCalled
    /\ IsNum(analysis.locals.f_value) /\ IsNum(analysis.locals.threshold)
    /\ analysis.result[3] = TRUE
    /\ ~AtBoundary(analysis)

\* C5: with dfd <= 0 the engine fails with InvalidInput and returns nothing.
C5_InvalidInputOnNoDfd ==
    \A r \in Called :
        r.locals.dfd <= 0 => (r.raised = "InvalidInput" /\ r.result = <<>>)

\* C6: with a zero within-group sum of squares (on an otherwise valid input)
\* the engine fails with DegenerateData and returns no nan or infinite F.
C6_DegenerateDataOnZeroWithin ==
    \A r \in Called :
        (ValidInput /\ r.locals.within_group_variance = Zero) =>
            (r.raised = "DegenerateData" /\ r.result = <<>>)

\* C7: with a single distinct label the engine fails with InvalidInput and
\* returns nothing.
C7_InvalidInputOnOneGroup ==
    \A r \in Called :
        NGroups = 1 => (r.raised = "InvalidInput" /\ r.result = <<>>)

\* The rows sorted by label (PID, LQR, MPC) and then by error.
LabelRank(g) == CASE g = "PID" -> 1 [] g = "LQR" -> 2 [] OTHER -> 3

RowLe(a, b) ==
    \/ LabelRank(a.algorithm) < LabelRank(b.algorithm)
    \/ (a.algorithm = b.algorithm /\ a.error <= b.error)

RECURSIVE InsertRow(_, _)
InsertRow(row, sorted) ==
    IF sorted = <<>> THEN <<row>>
    ELSE IF RowLe(row, Head(sorted)) THEN <<row>> \o sorted
         ELSE <<Head(sorted)>> \o InsertRow(row, Tail(sorted))

RECURSIVE SortRows(_)
SortRows(table) ==
    IF table = <<>> THEN <<>> ELSE InsertRow(Head(table), SortRows(Tail(table)))

SameStatistics(a, b) ==
    /\ a.raised = "none" /\ b.raised = "none"
    /\ a.locals.total_variance = b.locals.total_variance
    /\ a.locals.within_group_variance = b.locals.within_group_variance
    /\ a.locals.between_group_variance = b.locals.between_group_variance
    /\ a.locals.dfn = b.locals.dfn
    /\ a.locals.dfd = b.locals.dfd
    /\ a.locals.f_value = b.locals.f_value
    /\ a.locals.is_significant = b.locals.is_significant
    /\ a.result = b.result

\* C8: the result does not depend on the order of the rows: every valid table
\* gives the sums of squares, degrees of freedom, F and flag of the same rows
\* sorted, so all the orders of the same rows agree.
C8_OrderIndependent ==
    (ValidInput /\ analysis # NotCalled) =>
        SameStatistics(analysis,
            Analysis_perform_anova_test("error", "algorithm", SortRows(dataframe), alpha))

\* An analysed valid table whose groups are interleaved and first seen in
\* another order than in the sorted table, with a finite F > 0.
C8_Witness ==
    /\ ValidInput /\ analysis # NotCalled
    /\ unique(Column(dataframe, "algorithm"))
           # unique(Column(SortRows(dataframe), "algorithm"))
    /\ \E i \in 1..(NRows - 2) :
           /\ dataframe[i].algorithm # dataframe[i + 1].algorithm
           /\ dataframe[i].algorithm = dataframe[i + 2].algorithm
    /\ IsNum(analysis.locals.f_value) /\ analysis.locals.f_value.n > 0

\* C10: the two copies of perform_anova_test return the same tuple, or fail in
\* the same way, on the same arguments.
C10_CopiesAgree ==
    (analysis # NotCalled /\ report # NotCalled) =>
        (analysis.raised = report.raised /\ analysis.result = report.result)

\* Both copies have returned a finite, significant F at an alpha other than
\* the default.
C10_Witness ==
    /\ ValidInput /\ alpha # DefaultAlpha
    /\ analysis # NotCalled /\ report # NotCalled
    /\ analysis.raised = "none"
    /\ IsNum(analysis.result[1]) /\ analysis.result[3] = TRUE

\* C9: a script that found the data file missing has not called
\* perform_anova_test and has written no output file, and an output file is
\* written only after the script's ANOVA has returned.
C9_MissingFileAndOrder ==
    /\ mainPc = "no_file" => (analysis = NotCalled /\ FigureFile \notin outputs)
    /\ reportPc = "no_file" => (report = NotCalled /\ ReportFile \notin outputs)
    /\ FigureFile \in outputs => (analysis # NotCalled /\ analysis.raised = "none")
    /\ ReportFile \in outputs => (report # NotCalled /\ report.raised = "none")

\* main() returned on the missing file; the file was then generated and the
\* report script analysed it and wrote the report.
C9_Witness ==
    /\ mainPc = "no_file"
    /\ reportPc = "done"
    /\ ReportFile \in outputs
====
